---- MODULE Spec2Model ----
(***************************************************************************)
(* Model of mcp-bearer-token/health_mcp_server.py: the startup validation  *)
(* of the two environment settings, the bearer-token middleware, the two   *)
(* SQLite tables and the five tools registered on the MCP server.          *)
(*                                                                         *)
(* Optional[str] values are sequences of length at most one: <<>> is       *)
(* Python's None and <<s>> the string s.  A path is a sequence of          *)
(* characters.  A datetime is a number of clock ticks; DayLen ticks make   *)
(* one day.                                                                *)
(***************************************************************************)
EXTENDS Integers, Sequences, FiniteSets, TLC

\* ------------------------------------------------------------------ bounds
\* the clock stops at MaxTime; the two tables together hold at most MaxRows rows
MaxTime == 2
MaxRows == 2

\* ticks of the clock in one day, the unit of timedelta.days
DayLen == 2

\* ------------------------------------------------------------------ inputs
None == <<>>
Some(s) == <<s>>

EnvValues == {None, Some(""), Some("s3cret")}
NumberValues == {None, Some(""), Some("919876543210")}

Paths == { <<"/", "m", "c", "p", "/", "t">>,
           <<"/", "m", "c", "p", "x">>,
           <<"/", "h">> }
AuthHeaders == {None, Some("Bearer s3cret"), Some("Bearer None"), Some("Bearer ")}

Users == {"u1", "u2"}
UserIdHeaders == {None, Some("")} \cup {Some(u) : u \in Users}
\* reminder types in the order of SQLite's BINARY collation
ReminderTypes == <<"exercise", "hydration">>
ReminderTimes == {"every 2 hours", "every 3 hours"}
Categories == {"steps"}
Values == {8, 500}
TipCategories == {"nutrition", "sleep"}

VARIABLES
    AUTH_TOKEN, MY_NUMBER,  \* os.getenv("AUTH_TOKEN"), os.getenv("MY_NUMBER")
    phase,                  \* "boot", "aborted" (ValueError at import) or "serving"
    conn,                   \* "closed" or "open": sqlite3.connect has run
    reminders, progress,    \* the two tables, rows in rowid order
    now,                    \* datetime.now(), in ticks
    req,                    \* the HTTP request add_auth saw last
    resp,                   \* the outcome of the handler called for it
    lastSet,                \* per key, the reminder_time of the last successful set
    overwritten,            \* the reminder_time the last successful set_reminder replaced, if any
    nTracks,                \* number of successful track_progress calls
    tasks, cursor, dirty, running   \* statement-level view, see SpecSteps

dbVars == <<reminders, progress>>
envVars == <<AUTH_TOKEN, MY_NUMBER>>
seqVars == <<req, resp>>
ghostVars == <<lastSet, overwritten, nTracks>>
stepVars == <<tasks, cursor, dirty, running>>
vars == <<AUTH_TOKEN, MY_NUMBER, phase, conn, reminders, progress, now,
          req, resp, lastSet, overwritten, nTracks, tasks, cursor, dirty, running>>

\* ------------------------------------------------------------ pure helpers
\* Python truthiness of an Optional[str]: None and "" are falsy
Falsy(v) == v = None \/ v = Some("")

\* f"{v}" for an Optional[str]
FString(v) == IF v = None THEN "None" ELSE v[1]

\* str.startswith
StartsWith(p, pre) == Len(p) >= Len(pre) /\ SubSeq(p, 1, Len(pre)) = pre

McpPrefix == <<"/", "m", "c", "p">>

\* the routes of mcp_router: the prefix itself or a path below it
Routed(p) == p = McpPrefix \/ StartsWith(p, McpPrefix \o <<"/">>)

\* sqlite3's datetime adapter: the text "<date> <time of day>"
AdaptDatetime(t) == <<t \div DayLen, t % DayLen>>

\* datetime.fromisoformat of a stored text
FromIsoFormat(s) == s[1] * DayLen + s[2]

\* timedelta.days of (a - b)
TimedeltaDays(a, b) == (a - b) \div DayLen

TypeRank(t) == CHOOSE i \in 1..Len(ReminderTypes) : ReminderTypes[i] = t

\* insertion of a row into a sequence kept in index order (type, then rowid)
RECURSIVE InsertByType(_, _)
InsertByType(sorted, row) ==
    IF sorted = <<>> THEN <<row>>
    ELSE IF TypeRank(row.reminder_type) < TypeRank(Head(sorted).reminder_type)
         THEN <<row>> \o sorted
         ELSE <<Head(sorted)>> \o InsertByType(Tail(sorted), row)

RECURSIVE IndexOrder(_)
IndexOrder(rows) ==
    IF rows = <<>> THEN <<>>
    ELSE InsertByType(IndexOrder(SubSeq(rows, 1, Len(rows) - 1)), rows[Len(rows)])

\* ----------------------------------------------------------------- storage
ReminderRow(u, t, x, at) ==
    [user_id |-> u, reminder_type |-> t, reminder_time |-> x, created_at |-> at]

ProgressRow(u, c, v, at) ==
    [user_id |-> u, category |-> c, value |-> v, last_updated |-> at]

SameKey(a, b) == a.user_id = b.user_id /\ a.reminder_type = b.reminder_type

\* variant: INSERT OR IGNORE, the first write on a key stays
InsertOrIgnoreReminder(tbl, row) ==
    IF \E i \in 1..Len(tbl) : SameKey(tbl[i], row) THEN tbl ELSE tbl \o <<row>>

\* variant: PRIMARY KEY (user_id) alone, a set drops the user's other rows
ReplaceByUser(tbl, row) ==
    LET Other(r) == r.user_id # row.user_id IN SelectSeq(tbl, Other) \o <<row>>

\* variant: PRIMARY KEY (reminder_type) alone, a set drops other users' rows
ReplaceByType(tbl, row) ==
    LET Other(r) == r.reminder_type # row.reminder_type IN SelectSeq(tbl, Other) \o <<row>>

\* INSERT OR REPLACE INTO reminders: the PRIMARY KEY (user_id, reminder_type)
\* makes SQLite delete the conflicting row and store the new one under a
\* fresh rowid, i.e. at the end of the table
InsertOrReplaceReminder(tbl, row) ==
    LET Other(r) == ~SameKey(r, row) IN SelectSeq(tbl, Other) \o <<row>>

\* variant: progress keyed by (user_id, category), a write replaces
UpsertProgressByKey(tbl, row) ==
    LET Other(r) == ~(r.user_id = row.user_id /\ r.category = row.category)
    IN SelectSeq(tbl, Other) \o <<row>>

\* INSERT OR REPLACE INTO progress: the table declares no key, so nothing
\* ever conflicts and the row is added
InsertOrReplaceProgress(tbl, row) == Append(tbl, row)

\* variant: the SELECT without its WHERE clause
SelectAllRows(tbl, u) == IndexOrder(tbl)

\* variant: the rows of the user in rowid order, a full table scan
SelectByUserRowid(tbl, u) ==
    LET Mine(r) == r.user_id = u IN SelectSeq(tbl, Mine)

\* SELECT * FROM reminders WHERE user_id = ?: SQLite answers it from the
\* primary-key index, so the rows come back by reminder_type
SelectByUser(tbl, u) ==
    LET Mine(r) == r.user_id = u IN IndexOrder(SelectSeq(tbl, Mine))

\* ------------------------------------------------------------------- texts
TextOut(s) == [kind |-> "text", text |-> s]
ErrorOut(s) == [kind |-> "error", text |-> s]
NoOut == [kind |-> "none"]

NoRemindersText == "No active reminders. Set one with 'set_reminder'!"
TipNotFoundText == "Tip not found for that category."

\* the line f"- {rem[1]} at {rem[2]} (set on {rem[3]})\n" of one row
ReminderLine(rem) == <<rem.reminder_type, rem.reminder_time, rem.created_at>>

\* the body of get_reminders after the identity check, on the fetched rows
RenderReminders(rows, clock) ==
    IF rows = <<>> THEN TextOut(NoRemindersText)
    ELSE [kind |-> "list",
          lines |-> [i \in 1..Len(rows) |-> ReminderLine(rows[i])],
          days |-> TimedeltaDays(clock, FromIsoFormat(rows[1].created_at))]

Tips(category) ==
    CASE category = "nutrition" -> "Eat balanced meals with veggies, proteins, and whole grains. Try adding spinach to your salad for iron!"
      [] category = "stress" -> "Practice deep breathing: Inhale for 4 seconds, hold for 4, exhale for 4. Repeat 5 times."
      [] category = "workout" -> "Quick home workout: 10 push-ups, 20 squats, 30-second plank. No equipment needed!"
      [] OTHER -> TipNotFoundText

SetReminderText(t, x) == "Reminder set for " \o t \o " at " \o x \o "!"
TrackProgressText(c, v) ==
    "Progress updated: " \o ToString(v) \o " for " \o c \o ". Great job!"

\* --------------------------------------------------------------- requests
Req(path, auth, stage, status) ==
    [path |-> path, auth |-> auth, stage |-> stage, status |-> status]
NoReq == Req(<<>>, None, "idle", 0)

Resp(tool, user, status, out) ==
    [tool |-> tool, user |-> user, status |-> status, out |-> out]
NoResp == Resp("none", None, 0, NoOut)

Keys == Users \X {ReminderTypes[i] : i \in 1..Len(ReminderTypes)}

\* variant: the header compared with the bare token
AuthRejectsBareToken(path, auth) ==
    StartsWith(path, McpPrefix) /\ auth # Some(FString(AUTH_TOKEN))

\* the condition under which add_auth raises HTTPException(401)
AuthRejects(path, auth) ==
    StartsWith(path, McpPrefix) /\ auth # Some("Bearer " \o FString(AUTH_TOKEN))

\* variant: `is None` tests, an empty setting passes
ConfigOkNoneOnly == AUTH_TOKEN # None /\ MY_NUMBER # None

\* the two `if not ...: raise ValueError` checks at import time
ConfigOk == ~Falsy(AUTH_TOKEN) /\ ~Falsy(MY_NUMBER)

\* the requests in flight, each a task of the one event loop
TaskIds == {1, 2}
Task(pc, tool, user, args) == [pc |-> pc, tool |-> tool, user |-> user, args |-> args]
Waiting == Task("waiting", "none", "", <<>>)

\* ------------------------------------------------------------------- Init
Init ==
    /\ AUTH_TOKEN \in EnvValues
    /\ MY_NUMBER \in NumberValues
    /\ phase = "boot"
    /\ conn = "closed"
    /\ reminders = <<>>
    /\ progress = <<>>
    /\ now = 0
    /\ req = NoReq
    /\ resp = NoResp
    /\ lastSet = [k \in Keys |-> None]
    /\ overwritten = None
    /\ nTracks = 0
    /\ tasks = [r \in TaskIds |-> Waiting]
    /\ cursor = <<>>
    /\ dirty = FALSE
    /\ running = 0

\* ---------------------------------------------------------------- actions
\* Spec takes one request at a time through add_auth and then through the
\* handler of one tool; every handler is one step, as its body runs from entry
\* to return without giving up the event loop (SpecSteps below takes the
\* handlers statement by statement).
\* module import: validate the environment, then open the database and
\* create the two tables
Startup ==
    /\ phase = "boot"
    /\ phase' = IF ConfigOk THEN "serving" ELSE "aborted"
    /\ conn' = IF ConfigOk THEN "open" ELSE "closed"
    /\ UNCHANGED <<envVars, dbVars, now, seqVars, ghostVars, stepVars>>

\* datetime.now() advances
Tick ==
    /\ now < MaxTime
    /\ now' = now + 1
    /\ UNCHANGED <<envVars, phase, conn, dbVars, seqVars, ghostVars, stepVars>>

\* add_auth up to `await call_next(request)`
AddAuth(path, auth) ==
    /\ phase = "serving"
    /\ req.stage # "forwarded"
    /\ req' = IF AuthRejects(path, auth)
              THEN Req(path, auth, "rejected", 401)
              ELSE Req(path, auth, "forwarded", 0)
    /\ resp' = NoResp
    /\ overwritten' = None
    /\ UNCHANGED <<envVars, phase, conn, dbVars, now, lastSet, nTracks, stepVars>>

\* variant: `if puch_user_id is None:`, an empty identity passes
MissingIdentityNoneOnly(puch_user_id) == puch_user_id = None

\* `if not puch_user_id:` of the three tools that take the identity header
MissingIdentity(puch_user_id) == Falsy(puch_user_id)

HasKey(tbl, u, t) ==
    \E i \in 1..Len(tbl) : tbl[i].user_id = u /\ tbl[i].reminder_type = t

\* the reminder_time stored under a key, None when the key has no row
TimeOf(tbl, u, t) ==
    IF HasKey(tbl, u, t)
    THEN Some(tbl[CHOOSE i \in 1..Len(tbl) :
                     tbl[i].user_id = u /\ tbl[i].reminder_type = t].reminder_time)
    ELSE None

\* the two tables together hold at most MaxRows rows
HasRoom(rem, prog) == Len(rem) + Len(prog) <= MaxRows

Dispatchable == req.stage = "forwarded" /\ Routed(req.path)

Finish(r) ==
    /\ resp' = r
    /\ req' = [req EXCEPT !.stage = "done", !.status = r.status]

\* a forwarded request that no route of the application matches
NotFound ==
    /\ req.stage = "forwarded" /\ ~Routed(req.path)
    /\ Finish(Resp("none", None, 404, ErrorOut("Not Found")))
    /\ UNCHANGED <<envVars, phase, conn, dbVars, now, ghostVars, stepVars>>

validate ==
    /\ Dispatchable
    /\ Finish(Resp("validate", None, 200, TextOut(FString(MY_NUMBER))))
    /\ UNCHANGED <<envVars, phase, conn, dbVars, now, ghostVars, stepVars>>

set_reminder(puch_user_id, t, x) ==
    /\ Dispatchable
    /\ IF MissingIdentity(puch_user_id)
       THEN /\ Finish(Resp("set_reminder", puch_user_id, 400,
                           ErrorOut("puch_user_id required")))
            /\ UNCHANGED <<dbVars, lastSet, overwritten>>
       ELSE /\ HasRoom(InsertOrReplaceReminder(reminders,
                                ReminderRow(puch_user_id[1], t, x, AdaptDatetime(now))),
                       progress)
            /\ reminders' = InsertOrReplaceReminder(reminders,
                                ReminderRow(puch_user_id[1], t, x, AdaptDatetime(now)))
            /\ Finish(Resp("set_reminder", puch_user_id, 200,
                           TextOut(SetReminderText(t, x))))
            /\ lastSet' = [lastSet EXCEPT ![<<puch_user_id[1], t>>] = Some(x)]
            /\ overwritten' = TimeOf(reminders, puch_user_id[1], t)
            /\ UNCHANGED progress
    /\ UNCHANGED <<envVars, phase, conn, now, nTracks, stepVars>>

get_reminders(puch_user_id) ==
    /\ Dispatchable
    /\ IF MissingIdentity(puch_user_id)
       THEN Finish(Resp("get_reminders", puch_user_id, 400,
                        ErrorOut("puch_user_id required")))
       ELSE Finish(Resp("get_reminders", puch_user_id, 200,
                        RenderReminders(SelectByUser(reminders, puch_user_id[1]), now)))
    /\ UNCHANGED <<envVars, phase, conn, dbVars, now, ghostVars, stepVars>>

get_wellness_tip(category) ==
    /\ Dispatchable
    /\ Finish(Resp("get_wellness_tip", None, 200, TextOut(Tips(category))))
    /\ UNCHANGED <<envVars, phase, conn, dbVars, now, ghostVars, stepVars>>

track_progress(puch_user_id, c, v) ==
    /\ Dispatchable
    /\ IF MissingIdentity(puch_user_id)
       THEN /\ Finish(Resp("track_progress", puch_user_id, 400,
                           ErrorOut("puch_user_id required")))
            /\ UNCHANGED <<dbVars, nTracks>>
       ELSE /\ HasRoom(reminders, Append(progress, <<>>))
            /\ progress' = InsertOrReplaceProgress(progress,
                                ProgressRow(puch_user_id[1], c, v, AdaptDatetime(now)))
            /\ Finish(Resp("track_progress", puch_user_id, 200,
                           TextOut(TrackProgressText(c, v))))
            /\ nTracks' = nTracks + 1
            /\ UNCHANGED reminders
    /\ UNCHANGED <<envVars, phase, conn, now, lastSet, overwritten, stepVars>>

Next ==
    \/ Startup
    \/ Tick
    \/ \E path \in Paths, auth \in AuthHeaders : AddAuth(path, auth)
    \/ NotFound
    \/ validate
    \/ \E id \in UserIdHeaders, i \in 1..Len(ReminderTypes), x \in ReminderTimes :
          set_reminder(id, ReminderTypes[i], x)
    \/ \E id \in UserIdHeaders : get_reminders(id)
    \/ \E category \in TipCategories : get_wellness_tip(category)
    \/ \E id \in UserIdHeaders, c \in Categories, v \in Values : track_progress(id, c, v)

Spec == Init /\ [][Next]_vars

\* variant: handlers that give up the loop between their statements
LoopFreeAwait(r) == TRUE

\* ------------------------------------------------- statement-level handlers
\* The handlers are coroutines (`async def`) of one event loop: a task that
\* has started a handler runs it to its return, because the handler bodies
\* contain no `await`; `running` is the task that holds the loop, 0 for none.
\* The statements of the handlers run within one tick of the clock.
LoopFree(r) == running \in {0, r}

InitSteps ==
    /\ AUTH_TOKEN = Some("s3cret")
    /\ MY_NUMBER = Some("919876543210")
    /\ phase = "serving"
    /\ conn = "open"
    /\ reminders = <<>>
    /\ progress = <<>>
    /\ now = 0
    /\ req = NoReq
    /\ resp = NoResp
    /\ lastSet = [k \in Keys |-> None]
    /\ overwritten = None
    /\ nTracks = 0
    /\ tasks = [r \in TaskIds |-> Waiting]
    /\ cursor = <<>>
    /\ dirty = FALSE
    /\ running = 0

\* the loop starts the handler of task r: the `if not puch_user_id` check
Enter(r, tool, puch_user_id, args) ==
    /\ tasks[r].pc = "waiting"
    /\ LoopFree(r)
    /\ IF MissingIdentity(puch_user_id)
       THEN /\ resp' = Resp(tool, puch_user_id, 400, ErrorOut("puch_user_id required"))
            /\ UNCHANGED <<tasks, running>>
       ELSE /\ tool = "set_reminder" =>
                 HasRoom(InsertOrReplaceReminder(reminders,
                            ReminderRow(puch_user_id[1], args[1], args[2], AdaptDatetime(now))),
                         progress)
            /\ tool = "track_progress" => HasRoom(reminders, Append(progress, <<>>))
            /\ tasks' = [tasks EXCEPT ![r] = Task("checked", tool, puch_user_id[1], args)]
            /\ running' = r
            /\ resp' = NoResp
    /\ UNCHANGED <<envVars, phase, conn, dbVars, now, req, ghostVars, cursor, dirty>>

\* cursor.execute(...) of task r on the shared cursor
Execute(r) ==
    /\ tasks[r].pc = "checked"
    /\ LoopFree(r)
    /\ tasks' = [tasks EXCEPT ![r].pc = "executed"]
    /\ running' = r
    /\ CASE tasks[r].tool = "set_reminder" ->
              /\ reminders' = InsertOrReplaceReminder(reminders,
                                 ReminderRow(tasks[r].user, tasks[r].args[1],
                                             tasks[r].args[2], AdaptDatetime(now)))
              /\ lastSet' = [lastSet EXCEPT ![<<tasks[r].user, tasks[r].args[1]>>]
                                              = Some(tasks[r].args[2])]
              /\ overwritten' = TimeOf(reminders, tasks[r].user, tasks[r].args[1])
              /\ cursor' = <<>>
              /\ dirty' = TRUE
              /\ UNCHANGED <<progress, nTracks>>
         [] tasks[r].tool = "track_progress" ->
              /\ progress' = InsertOrReplaceProgress(progress,
                                 ProgressRow(tasks[r].user, tasks[r].args[1],
                                             tasks[r].args[2], AdaptDatetime(now)))
              /\ nTracks' = nTracks + 1
              /\ cursor' = <<>>
              /\ dirty' = TRUE
              /\ UNCHANGED <<reminders, lastSet, overwritten>>
         [] tasks[r].tool = "get_reminders" ->
              /\ cursor' = SelectByUser(reminders, tasks[r].user)
              /\ UNCHANGED <<dbVars, ghostVars, dirty>>
    /\ UNCHANGED <<envVars, phase, conn, now, req, resp>>

\* conn.commit() and return, or cursor.fetchall() and the rendering
Complete(r) ==
    /\ tasks[r].pc = "executed"
    /\ LoopFree(r)
    /\ tasks' = [tasks EXCEPT ![r] = Waiting]
    /\ running' = 0
    /\ CASE tasks[r].tool = "set_reminder" ->
              /\ dirty' = FALSE
              /\ resp' = Resp("set_reminder", Some(tasks[r].user), 200,
                              TextOut(SetReminderText(tasks[r].args[1], tasks[r].args[2])))
              /\ UNCHANGED cursor
         [] tasks[r].tool = "track_progress" ->
              /\ dirty' = FALSE
              /\ resp' = Resp("track_progress", Some(tasks[r].user), 200,
                              TextOut(TrackProgressText(tasks[r].args[1], tasks[r].args[2])))
              /\ UNCHANGED cursor
         [] tasks[r].tool = "get_reminders" ->
              /\ cursor' = <<>>
              /\ resp' = Resp("get_reminders", Some(tasks[r].user), 200,
                              RenderReminders(cursor, now))
              /\ UNCHANGED dirty
    /\ UNCHANGED <<envVars, phase, conn, dbVars, now, req, ghostVars>>

NextSteps ==
    \/ \E r \in TaskIds, id \in UserIdHeaders, i \in 1..Len(ReminderTypes), x \in ReminderTimes :
          Enter(r, "set_reminder", id, <<ReminderTypes[i], x>>)
    \/ \E r \in TaskIds, id \in UserIdHeaders, c \in Categories, v \in Values :
          Enter(r, "track_progress", id, <<c, v>>)
    \/ \E r \in TaskIds, id \in UserIdHeaders : Enter(r, "get_reminders", id, <<>>)
    \/ \E r \in TaskIds : Execute(r)
    \/ \E r \in TaskIds : Complete(r)

SpecSteps == InitSteps /\ [][NextSteps]_vars

\* ================================================================== claims
TypeSet == {ReminderTypes[i] : i \in 1..Len(ReminderTypes)}
UnderMcp(p) == Len(p) >= 4 /\ p[1] = "/" /\ p[2] = "m" /\ p[3] = "c" /\ p[4] = "p"
BearerOk(h) == h # None /\ AUTH_TOKEN # None /\ h[1] = "Bearer " \o AUTH_TOKEN[1]
RowsOfKey(tbl, u, t) ==
    {i \in 1..Len(tbl) : tbl[i].user_id = u /\ tbl[i].reminder_type = t}
RowsOfUser(tbl, u) == {i \in 1..Len(tbl) : tbl[i].user_id = u}
IsSetOk(r) == r.tool = "set_reminder" /\ r.status = 200
IsTrackOk(r) == r.tool = "track_progress" /\ r.status = 200
IsGetOk(r) == r.tool = "get_reminders" /\ r.status = 200
\* the rows of a table whose key is not (u, t), in table order
OtherRows(tbl, u, t) ==
    LET Other(r) == ~(r.user_id = u /\ r.reminder_type = t) IN SelectSeq(tbl, Other)

\* the answer r of get_reminders lists exactly the rows of its user in tbl
GetAnswerOk(r, tbl) ==
    LET mine == RowsOfUser(tbl, r.user[1]) IN
      /\ (r.out = TextOut(NoRemindersText)) <=> (mine = {})
      /\ mine # {} =>
           /\ r.out.kind = "list"
           /\ Len(r.out.lines) = Cardinality(mine)
           /\ \A i \in mine : \E j \in 1..Len(r.out.lines) :
                 /\ r.out.lines[j][1] = tbl[i].reminder_type
                 /\ r.out.lines[j][2] = tbl[i].reminder_time
           /\ \A j \in 1..Len(r.out.lines) : \E i \in mine :
                 /\ r.out.lines[j][1] = tbl[i].reminder_type
                 /\ r.out.lines[j][2] = tbl[i].reminder_time

C1_Gate ==
    /\ req.stage = "rejected" =>
          /\ UnderMcp(req.path) /\ ~BearerOk(req.auth)
          /\ req.status = 401 /\ resp = NoResp
    /\ req.stage \in {"forwarded", "done"} => (~UnderMcp(req.path) \/ BearerOk(req.auth))
    /\ resp # NoResp => req.stage = "done"

\* C1: a request under /mcp is rejected with 401 exactly when its
\* Authorization header is not "Bearer " + token; a rejected request never
\* reaches a handler and changes neither table; a request outside /mcp is
\* forwarded whatever its header.
C1_AuthGate ==
    /\ [](C1_Gate)
    /\ [][req'.stage = "rejected" => (resp' = NoResp /\ UNCHANGED dbVars)]_vars

C1_Witness ==
    /\ req.stage = "rejected" /\ req.auth = Some("Bearer None")
    /\ Len(reminders) > 0 /\ Len(progress) > 0

\* C2: the reminders table holds at most one row per (user_id, reminder_type),
\* and that row carries the reminder_time of the last successful set on the key.
C2_OneRowLastWriteWins ==
    \A u \in Users, t \in TypeSet :
        /\ Cardinality(RowsOfKey(reminders, u, t)) <= 1
        /\ lastSet[<<u, t>>] = None => RowsOfKey(reminders, u, t) = {}
        /\ lastSet[<<u, t>>] # None =>
              \E i \in RowsOfKey(reminders, u, t) :
                  reminders[i].reminder_time = lastSet[<<u, t>>][1]

C2_Witness ==
    /\ IsSetOk(resp)
    /\ overwritten = Some("every 2 hours")
    /\ lastSet[<<"u1", "hydration">>] = Some("every 3 hours")
    /\ resp.out = TextOut(SetReminderText("hydration", "every 3 hours"))
    /\ resp.user = Some("u1")

\* C3: a set_reminder, get_reminders or track_progress call without a
\* non-empty puch_user_id ends with status 400 and leaves both tables as
\* they were.
C3_MissingIdentity ==
    /\ [](resp.tool \in {"set_reminder", "get_reminders", "track_progress"} =>
            (Falsy(resp.user) <=> resp.status = 400))
    /\ [][(resp' # resp /\ resp'.tool \in {"set_reminder", "get_reminders", "track_progress"}
             /\ Falsy(resp'.user)) =>
          (resp'.status = 400 /\ UNCHANGED dbVars)]_vars

C3_Witness ==
    /\ resp.tool = "track_progress" /\ resp.user = Some("") /\ resp.status = 400
    /\ Len(progress) > 0 /\ Len(reminders) > 0

\* C4: every successful track_progress(u, c, v) adds exactly one row
\* (u, c, v, now) at the end of the progress table and leaves the rows
\* already there as they were; n successful calls leave n rows.
C4_TrackAppends ==
    /\ [](Len(progress) = nTracks)
    /\ [][(resp' # resp /\ IsTrackOk(resp')) =>
            /\ Len(progress') = Len(progress) + 1
            /\ SubSeq(progress', 1, Len(progress)) = progress
            /\ LET row == progress'[Len(progress')] IN
                 /\ Some(row.user_id) = resp'.user
                 /\ resp'.out = TextOut(TrackProgressText(row.category, row.value))
                 /\ FromIsoFormat(row.last_updated) = now]_vars

C4_Witness ==
    /\ IsTrackOk(resp) /\ Len(progress) = 2 /\ nTracks = 2
    /\ progress[1].user_id = progress[2].user_id
    /\ progress[1].category = progress[2].category
    /\ progress[1].value = progress[2].value

\* C5: get_reminders(u) answers the fixed no-reminders text exactly when the
\* table has no row of u; otherwise it lists one line per row of u, with the
\* row's type and time, and no line of another user's row.
C5_GetReminders == IsGetOk(resp) => GetAnswerOk(resp, reminders)

C5_Witness ==
    /\ IsGetOk(resp) /\ resp.user = Some("u1")
    /\ Len(reminders) = 2 /\ reminders[1].user_id = "u2" /\ reminders[2].user_id = "u1"
    /\ resp.out.kind = "list" /\ Len(resp.out.lines) = 1

\* C6: with AUTH_TOKEN or MY_NUMBER absent or empty, startup aborts before
\* the database is opened and no request is ever handled; the headers
\* "Bearer None" and "Bearer " never pass the gate.
C6_RefusesToStart ==
    /\ (Falsy(AUTH_TOKEN) \/ Falsy(MY_NUMBER)) =>
          /\ phase \in {"boot", "aborted"} /\ conn = "closed"
          /\ req = NoReq /\ resp = NoResp
    /\ phase = "aborted" => (Falsy(AUTH_TOKEN) \/ Falsy(MY_NUMBER))
    /\ phase = "serving" => conn = "open"
    /\ (req.stage \in {"forwarded", "done"} /\ UnderMcp(req.path)) =>
          req.auth \notin {Some("Bearer None"), Some("Bearer ")}

C6_Witness == phase = "aborted" /\ AUTH_TOKEN = Some("") /\ ~Falsy(MY_NUMBER)

\* C7: no step removes a reminders key or changes or removes a progress row.
C7_NothingDeleted ==
    [][/\ \A u \in Users, t \in TypeSet :
             RowsOfKey(reminders, u, t) # {} => RowsOfKey(reminders', u, t) # {}
       /\ Len(progress') >= Len(progress)
       /\ SubSeq(progress', 1, Len(progress)) = progress]_vars

C7_Witness ==
    /\ IsSetOk(resp) /\ overwritten # None /\ Len(reminders) = 2

StreakOf(tbl, u, clock) == RenderReminders(SelectByUser(tbl, u), clock).days
FirstType(tbl, u) == SelectByUser(tbl, u)[1].reminder_type

\* C8: the streak of get_reminders(u) is the number of whole days between now
\* and the created_at of the first listed row; it is never negative;
\* setting again the reminder listed first makes it 0 and setting again
\* another reminder of u leaves it as it was.
C8_Streak ==
    /\ [][(resp' # resp /\ IsGetOk(resp') /\ resp'.out.kind = "list") =>
            /\ resp'.out.days * DayLen <= now - FromIsoFormat(resp'.out.lines[1][3])
            /\ (resp'.out.days + 1) * DayLen > now - FromIsoFormat(resp'.out.lines[1][3])
            /\ resp'.out.days >= 0]_vars
    /\ [][(resp' # resp /\ IsSetOk(resp') /\ overwritten' # None) =>
            \A t \in TypeSet, x \in ReminderTimes :
               resp'.out = TextOut(SetReminderText(t, x)) =>
                  IF t = FirstType(reminders, resp'.user[1])
                  THEN StreakOf(reminders', resp'.user[1], now) = 0
                  ELSE StreakOf(reminders', resp'.user[1], now)
                         = StreakOf(reminders, resp'.user[1], now)]_vars

\* u1 holds two reminders; the one listed second was set again a day after
\* the first, and the streak still counts from the first
C8_Witness ==
    /\ IsSetOk(resp) /\ resp.user = Some("u1") /\ overwritten # None
    /\ Len(SelectByUser(reminders, "u1")) = 2
    /\ resp.out = TextOut(SetReminderText(SelectByUser(reminders, "u1")[2].reminder_type,
                                          SelectByUser(reminders, "u1")[2].reminder_time))
    /\ FromIsoFormat(SelectByUser(reminders, "u1")[2].created_at) = now
    /\ StreakOf(reminders, "u1", now) = 1

\* get_reminders listed two rows and the first is the one set last
C8_ScanWitness ==
    /\ IsGetOk(resp) /\ resp.out.kind = "list" /\ Len(resp.out.lines) = 2
    /\ resp.out.days = 0
    /\ FromIsoFormat(resp.out.lines[1][3]) > FromIsoFormat(resp.out.lines[2][3])
    /\ TimedeltaDays(now, FromIsoFormat(resp.out.lines[2][3])) = 1

\* C10: a step that changes the reminders table is a successful
\* set_reminder(u, t, x) and changes only the row keyed (u, t); a step that
\* changes the progress table is a successful track_progress and keeps every
\* row already there; no step changes both tables; get_reminders,
\* get_wellness_tip and validate change neither.
C10_Frame ==
    [][/\ reminders' # reminders =>
            /\ IsSetOk(resp') /\ progress' = progress
            /\ \E t \in TypeSet, x \in ReminderTimes :
                  /\ resp'.out = TextOut(SetReminderText(t, x))
                  /\ OtherRows(reminders', resp'.user[1], t)
                       = OtherRows(reminders, resp'.user[1], t)
       /\ progress' # progress =>
            /\ IsTrackOk(resp') /\ reminders' = reminders
            /\ SubSeq(progress', 1, Len(progress)) = progress
       /\ (resp' # resp /\ resp'.tool \in {"get_reminders", "get_wellness_tip", "validate"})
             => UNCHANGED dbVars]_vars

C10_Witness ==
    /\ IsSetOk(resp) /\ Len(reminders) = 2 /\ overwritten # None
    /\ reminders[1].user_id = resp.user[1]
    /\ reminders[1].reminder_type # reminders[2].reminder_type

Busy == {r \in TaskIds : tasks[r].pc # "waiting"}

\* C9: the handlers of concurrent requests never overlap: at most one task is
\* inside a handler, a write is uncommitted only while its task holds the
\* loop and no other task steps meanwhile, every key holds the value of the
\* last set executed on it, and a get_reminders(u) answers with the rows of
\* u, whatever the other tasks do on the shared cursor.
C9_Serial ==
    /\ [](/\ Cardinality(Busy) <= 1
          /\ dirty => (running # 0 /\ Busy = {running})
          /\ C2_OneRowLastWriteWins)
    /\ [][\A r \in TaskIds :
            /\ (tasks[r].pc = "executed" /\ tasks'[r].pc = "waiting"
                  /\ tasks[r].tool = "get_reminders") =>
                   /\ resp'.user = Some(tasks[r].user)
                   /\ IsGetOk(resp') /\ GetAnswerOk(resp', reminders)
            /\ (dirty /\ tasks'[r] # tasks[r]) => running = r]_vars
    /\ [][dbVars' # dbVars =>
            \E r \in TaskIds : /\ tasks[r].pc = "checked" /\ tasks'[r].pc = "executed"
                               /\ dirty' /\ running' = r]_vars

C9_Witness ==
    /\ tasks[2].pc = "executed" /\ tasks[2].tool = "get_reminders" /\ running = 2
    /\ tasks[1].pc = "waiting"
    /\ Len(cursor) = 1 /\ Len(reminders) = 2
    /\ reminders[1].user_id # reminders[2].user_id

====
